---------------------------- MODULE Spec2Model ----------------------------
(***************************************************************************)
(* Model of utils/core/src/serde/byte_writer.rs: the ByteWriter trait, its *)
(* implementation for Vec<u8>, and the vint64 length function encoded_len. *)
(*                                                                         *)
(* TLC integers are 32 bits wide, so every Rust integer wider than a byte  *)
(* (u16, u32, u64, usize) is a bit vector: a function from bit positions   *)
(* 0..w-1 (bit 0 least significant) to 0..1.  Shifts drop the bits that    *)
(* leave the width, as the Rust operators do.  Bytes are integers 0..255,  *)
(* and the sink (a Vec<u8>) is a sequence of bytes.                        *)
(***************************************************************************)
EXTENDS Integers, Sequences, FiniteSets, TLC

VARIABLES sink, hist

vars == <<sink, hist>>

(***************************************************************************)
(* Bounds of the model.                                                    *)
(***************************************************************************)
MaxCalls == 2
MaxWrites == 3
MaxLow == 3
MaxPairLow == 0
MaxInitLen == 1

(***************************************************************************)
(* Integer widths.  usize is taken to be 64 bits wide (a 64-bit target).   *)
(***************************************************************************)
UsizeBits == 64
U16Bits == 16
U32Bits == 32
U64Bits == 64

Pow2(k) == 2 ^ k

(***************************************************************************)
(* Bit-vector primitives used by the source.                               *)
(***************************************************************************)
Width(v) == Cardinality(DOMAIN v)

Zero(w) == [i \in 0..(w - 1) |-> 0]

\* the literal 1 of the width of v
One(w) == [i \in 0..(w - 1) |-> IF i = 0 THEN 1 ELSE 0]

\* value << k for 0 <= k < width: the bits shifted past the top are dropped
shl(v, k) == [i \in DOMAIN v |-> IF i >= k THEN v[i - k] ELSE 0]

\* a | b
bitor(a, b) == [i \in DOMAIN a |-> IF a[i] = 1 \/ b[i] = 1 THEN 1 ELSE 0]

\* the number of zero bits from bit i down to the first set bit
RECURSIVE ZerosFrom(_, _)
ZerosFrom(v, i) ==
    IF i < 0 \/ v[i] = 1 THEN 0 ELSE 1 + ZerosFrom(v, i - 1)

\* value.leading_zeros()
leading_zeros(v) == ZerosFrom(v, Width(v) - 1)

\* a.saturating_sub(b)
saturating_sub(a, b) == IF a >= b THEN a - b ELSE 0

\* core::cmp::min(a, b)
min(a, b) == IF a <= b THEN a ELSE b

\* byte number j (from 0) of the little-endian representation
ByteOf(v, j) ==
    v[8 * j] + 2 * v[8 * j + 1] + 4 * v[8 * j + 2] + 8 * v[8 * j + 3]
    + 16 * v[8 * j + 4] + 32 * v[8 * j + 5] + 64 * v[8 * j + 6]
    + 128 * v[8 * j + 7]

\* value.to_be_bytes(): most significant byte first
to_be_bytes(v) ==
    [j \in 1..(Width(v) \div 8) |-> ByteOf(v, (Width(v) \div 8) - j)]

\* value.to_le_bytes(): least significant byte first
to_le_bytes(v) == [j \in 1..(Width(v) \div 8) |-> ByteOf(v, j - 1)]

(***************************************************************************)
(* impl ByteWriter for Vec<u8>                                             *)
(***************************************************************************)
write_u8(s, value) == Append(s, value)

\* the slice replaces the contents instead of extending them
write_bytes_replace(s, values) == values

write_bytes(s, values) == s \o values

(***************************************************************************)
(* Provided methods of the trait.                                          *)
(***************************************************************************)
\* val as u8
BoolAsU8(val) == IF val THEN 1 ELSE 0

write_bool(s, val) == write_u8(s, BoolAsU8(val))

write_u16(s, value) == write_bytes(s, to_le_bytes(value))

write_u32(s, value) == write_bytes(s, to_le_bytes(value))

write_u64(s, value) == write_bytes(s, to_le_bytes(value))

\* Serializable::write_into of a byte array [u8; N]: its bytes, in order
write_into(value, target) == write_bytes(target, value)

write(s, value) == write_into(value, s)

\* the length without the "- 1" that reserves the marker bit
encoded_len_no_marker(value) ==
    LET zeros == leading_zeros(value)
        len == zeros \div 7
    IN  9 - min(len, 8)

encoded_len(value) ==
    LET zeros == leading_zeros(value)
        len == saturating_sub(zeros, 1) \div 7
    IN  9 - min(len, 8)

\* (value | 1) << length: no room is made for the marker bit
write_usize_no_room(s, value) ==
    LET length == encoded_len(value)
    IN  IF length = 9
        THEN write(write_u8(s, 0), to_le_bytes(value))
        ELSE LET encoded_bytes ==
                     to_le_bytes(shl(bitor(value, One(UsizeBits)), length))
             IN  write_bytes(s, SubSeq(encoded_bytes, 1, length))

\* the escape branch forgets the zero lead byte
write_usize_no_lead(s, value) ==
    LET length == encoded_len(value)
    IN  IF length = 9
        THEN write(s, to_le_bytes(value))
        ELSE LET encoded_bytes ==
                     to_le_bytes(shl(bitor(shl(value, 1), One(UsizeBits)),
                                     length - 1))
             IN  write_bytes(s, SubSeq(encoded_bytes, 1, length))

\* the marker bit is shifted by length instead of length - 1
write_usize_shift_len(s, value) ==
    LET length == encoded_len(value)
    IN  IF length = 9
        THEN write(write_u8(s, 0), to_le_bytes(value))
        ELSE LET encoded_bytes ==
                     to_le_bytes(shl(bitor(shl(value, 1), One(UsizeBits)),
                                     length))
             IN  write_bytes(s, SubSeq(encoded_bytes, 1, length))

write_usize(s, value) ==
    LET length == encoded_len(value)
    IN  IF length = 9
        THEN write(write_u8(s, 0), to_le_bytes(value))
        ELSE LET encoded_bytes ==
                     to_le_bytes(shl(bitor(shl(value, 1), One(UsizeBits)),
                                     length - 1))
             IN  write_bytes(s, SubSeq(encoded_bytes, 1, length))

(***************************************************************************)
(* Inputs.  BitsOfNat(n, w) is the w-bit vector of a number n < 2^31;      *)
(* Words(ws) concatenates 16-bit words, least significant word first.      *)
(***************************************************************************)
BitsOfNat(n, w) ==
    [i \in 0..(w - 1) |-> IF i < 31 THEN (n \div Pow2(i)) % 2 ELSE 0]

Words(ws) ==
    [i \in 0..(16 * Len(ws) - 1) |-> (ws[(i \div 16) + 1] \div Pow2(i % 16)) % 2]

\* bit i of the small number low
LowBit(low, i) == IF i < 8 THEN (low \div Pow2(i)) % 2 ELSE 0

\* 2^(n-1) + low: a value of bit length n (0 when n = 0)
NearPow(n, low) ==
    [i \in 0..(UsizeBits - 1) |->
        IF i = n - 1 THEN 1 ELSE IF i < n - 1 THEN LowBit(low, i) ELSE 0]

\* 2^n - 1 - low: a value of bit length n
NearOnes(n, low) ==
    [i \in 0..(UsizeBits - 1) |->
        IF i = n - 1 THEN 1 ELSE IF i < n - 1 THEN 1 - LowBit(low, i) ELSE 0]

\* top bit n - 1, alternating bits below it, the low bits flipped by low
NearAlt(n, low) ==
    [i \in 0..(UsizeBits - 1) |->
        IF i = n - 1 THEN 1
        ELSE IF i < n - 1 THEN (((n - 1 - i) % 2) + LowBit(low, i)) % 2
        ELSE 0]

\* low fits below the top bit of a value of bit length n
Fits(n, low) == low = 0 \/ (n >= 2 /\ (n - 1 >= 8 \/ low < Pow2(n - 1)))

\* usize values of every bit length 0..64, around every length boundary
Values ==
    UNION { {NearPow(n, low), NearOnes(n, low), NearAlt(n, low)} :
            <<n, low>> \in {p \in (0..UsizeBits) \X (0..MaxLow) : Fits(p[1], p[2])} }

\* the values written in pairs: 2^(n-1) + low and 2^n - 1 - low
PairValues ==
    UNION { {NearPow(n, low), NearOnes(n, low)} :
            <<n, low>> \in {p \in (0..UsizeBits) \X (0..MaxPairLow) : Fits(p[1], p[2])} }

\* two usize values of every encoded length: the least and the greatest
StreamValues ==
    {NearPow(0, 0), NearOnes(UsizeBits, 0)}
    \cup {NearPow(7 * k + 1, 0) : k \in 1..8} \cup {NearOnes(7 * k, 0) : k \in 1..8}

U8Values == {0, 1, 127, 128, 255}

SliceValues == {<<>>, <<171>>, <<1, 2, 3>>, <<0, 0>>}

\* 0x0000, 0x0001, 0x1234, 0x8000, 0xFF00, 0xFFFF
U16Values ==
    {BitsOfNat(n, U16Bits) : n \in {0, 1, 4660, 32768, 65280, 65535}}

\* 0x00000001, 0x12345678, 0x80000000, 0xFFFFFFFF
U32Values ==
    {Words(<<1, 0>>), Words(<<22136, 4660>>), Words(<<0, 32768>>),
     Words(<<65535, 65535>>)}

\* 0x0000000000000001, 0x0123456789ABCDEF, 0x8000000000000000, 2^64 - 1
U64Values ==
    {Words(<<1, 0, 0, 0>>), Words(<<52719, 35243, 17767, 291>>),
     Words(<<0, 0, 0, 32768>>), Words(<<65535, 65535, 65535, 65535>>)}

\* the contents a caller's Vec<u8> may hold before the first write
InitSinks == UNION {[1..n -> {0, 171}] : n \in 0..MaxInitLen}

(***************************************************************************)
(* State.  sink is the Vec<u8>; hist records the calls made on it: the     *)
(* method, its argument and the sink's length when it was called.          *)
(***************************************************************************)
Call(op, arg) == [op |-> op, arg |-> arg, start |-> Len(sink)]

Init ==
    /\ sink \in InitSinks
    /\ hist = <<>>

CallWriteU8 ==
    \E value \in U8Values :
        /\ Len(hist) < MaxCalls
        /\ sink' = write_u8(sink, value)
        /\ hist' = Append(hist, Call("write_u8", value))

CallWriteBytes ==
    \E values \in SliceValues :
        /\ Len(hist) < MaxCalls
        /\ sink' = write_bytes(sink, values)
        /\ hist' = Append(hist, Call("write_bytes", values))

CallWriteBool ==
    \E val \in BOOLEAN :
        /\ Len(hist) < MaxCalls
        /\ sink' = write_bool(sink, val)
        /\ hist' = Append(hist, Call("write_bool", val))

CallWriteU16 ==
    \E value \in U16Values :
        /\ Len(hist) < MaxCalls
        /\ sink' = write_u16(sink, value)
        /\ hist' = Append(hist, Call("write_u16", value))

CallWriteU32 ==
    \E value \in U32Values :
        /\ Len(hist) < MaxCalls
        /\ sink' = write_u32(sink, value)
        /\ hist' = Append(hist, Call("write_u32", value))

CallWriteU64 ==
    \E value \in U64Values :
        /\ Len(hist) < MaxCalls
        /\ sink' = write_u64(sink, value)
        /\ hist' = Append(hist, Call("write_u64", value))

CallWriteUsize ==
    \E value \in StreamValues :
        /\ Len(hist) < MaxCalls
        /\ sink' = write_usize(sink, value)
        /\ hist' = Append(hist, Call("write_usize", value))

Next ==
    \/ CallWriteU8
    \/ CallWriteBytes
    \/ CallWriteBool
    \/ CallWriteU16
    \/ CallWriteU32
    \/ CallWriteU64
    \/ CallWriteUsize

Spec == Init /\ [][Next]_vars

(***************************************************************************)
(* One write_usize call on an empty sink, the value drawn from Values.     *)
(***************************************************************************)
InitEmpty ==
    /\ sink = <<>>
    /\ hist = <<>>

OneWriteUsize ==
    \E value \in Values :
        /\ hist = <<>>
        /\ sink' = write_usize(sink, value)
        /\ hist' = Append(hist, Call("write_usize", value))

NextUsize == OneWriteUsize

SpecUsize == InitEmpty /\ [][NextUsize]_vars

(***************************************************************************)
(* Two write_usize calls on an empty sink, the values drawn from           *)
(* PairValues.                                                             *)
(***************************************************************************)
PairWriteUsize ==
    \E value \in PairValues :
        /\ Len(hist) < 2
        /\ sink' = write_usize(sink, value)
        /\ hist' = Append(hist, Call("write_usize", value))

NextPair == PairWriteUsize

SpecPair == InitEmpty /\ [][NextPair]_vars

(***************************************************************************)
(* A stream of write_usize calls on an empty sink.                         *)
(***************************************************************************)
StreamWriteUsize ==
    \E value \in StreamValues :
        /\ Len(hist) < MaxWrites
        /\ sink' = write_usize(sink, value)
        /\ hist' = Append(hist, Call("write_usize", value))

NextStream == StreamWriteUsize

SpecStream == InitEmpty /\ [][NextStream]_vars

(***************************************************************************)
(* Vocabulary of the properties.                                           *)
(***************************************************************************)
\* the bytes call number i appended to the sink
Seg(i) ==
    SubSeq(sink, hist[i].start + 1,
           IF i < Len(hist) THEN hist[i + 1].start ELSE Len(sink))

Calls(op) == {i \in 1..Len(hist) : hist[i].op = op}

IsByte(b) == b \in 0..255

IsPrefix(a, b) == Len(a) <= Len(b) /\ SubSeq(b, 1, Len(a)) = a

\* v >= 2^k
AtLeastPow2(v, k) == \E i \in DOMAIN v : i >= k /\ v[i] = 1

\* a <= b as unsigned numbers of the same width
LessEq(a, b) ==
    \/ a = b
    \/ \E i \in DOMAIN a :
          a[i] < b[i] /\ \A j \in DOMAIN a : j > i => a[j] = b[j]

\* the boundary table: the least L in 1..8 with v < 2^(7L), 9 from 2^56 on
TableLen(v) ==
    IF AtLeastPow2(v, 56) THEN 9
    ELSE CHOOSE L \in 1..8 :
             /\ ~AtLeastPow2(v, 7 * L)
             /\ \A M \in 1..(L - 1) : AtLeastPow2(v, 7 * M)

\* the bit vector a little-endian byte sequence stands for
from_le_bytes(bs) ==
    [i \in 0..(8 * Len(bs) - 1) |-> (bs[(i \div 8) + 1] \div Pow2(i % 8)) % 2]

\* logical shift right
shr(v, k) == [i \in DOMAIN v |-> IF i + k \in DOMAIN v THEN v[i + k] ELSE 0]

\* v in w bits: zero-extended, or cut when w is narrower
Resize(v, w) == [i \in 0..(w - 1) |-> IF i \in DOMAIN v THEN v[i] ELSE 0]

\* the trailing-zero-bit count of a non-zero byte
HasTrailingZeros(b, t) == b % Pow2(t) = 0 /\ (b \div Pow2(t)) % 2 = 1

trailing_zeros(b) == CHOOSE t \in 0..7 : HasTrailingZeros(b, t)

(***************************************************************************)
(* The decoding contract of the vint64 format.                             *)
(***************************************************************************)
\* the number of bytes the lead byte at pos announces
DecodeLen(s, pos) == IF s[pos] # 0 THEN trailing_zeros(s[pos]) + 1 ELSE 9

DecodeOk(s, pos) == pos <= Len(s) /\ pos + DecodeLen(s, pos) - 1 <= Len(s)

DecodeAt(s, pos) ==
    IF s[pos] # 0
    THEN LET L == DecodeLen(s, pos)
         IN  Resize(shr(from_le_bytes(SubSeq(s, pos, pos + L - 1)), L), UsizeBits)
    ELSE from_le_bytes(SubSeq(s, pos + 1, pos + 8))

RECURSIVE DecodeAll(_, _)
DecodeAll(s, pos) ==
    IF pos > Len(s) THEN [ok |-> TRUE, values |-> <<>>]
    ELSE IF ~DecodeOk(s, pos) THEN [ok |-> FALSE, values |-> <<>>]
    ELSE LET rest == DecodeAll(s, pos + DecodeLen(s, pos))
         IN  [ok |-> rest.ok, values |-> <<DecodeAt(s, pos)>> \o rest.values]

MaxUsize == NearOnes(UsizeBits, 0)

(***************************************************************************)
(* C1.  Round trip: decoding the bytes that write_usize(v) appended gives  *)
(* v again, for every v, 0 and 2^64 - 1 included: a non-zero lead byte     *)
(* with t trailing zeros announces L = t + 1 bytes, read little-endian and *)
(* shifted right by L bits; a zero lead byte is followed by the 8 raw      *)
(* little-endian bytes of v.                                               *)
(***************************************************************************)
C1_RoundTrip ==
    \A i \in Calls("write_usize") :
        /\ DecodeOk(Seg(i), 1)
        /\ DecodeLen(Seg(i), 1) = Len(Seg(i))
        /\ DecodeAt(Seg(i), 1) = hist[i].arg

C1_Witness ==
    /\ Len(hist) = 1
    /\ hist[1].arg = MaxUsize
    /\ hist[1].start = 0
    /\ Len(sink) = 9
    /\ DecodeAt(sink, 1) = MaxUsize

(***************************************************************************)
(* C2.  Injectivity: two distinct values v1 # v2 are written as different  *)
(* byte sequences.  The first call writes v1 to the empty sink; the bytes  *)
(* the second call appends are those write_usize(v2) appends to an empty   *)
(* sink.                                                                   *)
(***************************************************************************)
C2_Injective ==
    Len(hist) = 2 =>
        /\ hist[1].start = 0
        /\ write_usize(<<>>, hist[2].arg) = Seg(2)
        /\ hist[1].arg # hist[2].arg => Seg(1) # Seg(2)

C2_Witness ==
    /\ Len(hist) = 2
    /\ hist[1].arg = Zero(UsizeBits)
    /\ hist[2].arg = One(UsizeBits)
    /\ Seg(1) = <<1>>
    /\ Seg(2) = <<3>>

(***************************************************************************)
(* C3.  encoded_len(v) is the length of the boundary table: the least L in *)
(* 1..8 with v < 2^(7L), and 9 when v >= 2^56; so it lies in 1..9 and      *)
(* never decreases as v grows.                                             *)
(***************************************************************************)
C3_EncodedLenTable ==
    /\ \A i \in Calls("write_usize") :
          /\ encoded_len(hist[i].arg) = TableLen(hist[i].arg)
          /\ encoded_len(hist[i].arg) \in 1..9
    /\ Len(hist) = 2 /\ LessEq(hist[1].arg, hist[2].arg)
          => encoded_len(hist[1].arg) <= encoded_len(hist[2].arg)

C3_Witness ==
    /\ Len(hist) = 2
    /\ hist[1].arg = NearOnes(7, 0)
    /\ hist[2].arg = NearPow(8, 0)
    /\ encoded_len(hist[1].arg) = 1
    /\ encoded_len(hist[2].arg) = 2
    /\ Len(sink) = 3

(***************************************************************************)
(* C4.  The first byte written tells the length: if it is non-zero its     *)
(* trailing-zero count t is in 0..7 and exactly t + 1 bytes were appended; *)
(* it is zero exactly when 9 bytes were appended, which is exactly when    *)
(* v >= 2^56.                                                              *)
(***************************************************************************)
C4_LeadByteLength ==
    \A i \in Calls("write_usize") :
        /\ Len(Seg(i)) >= 1
        /\ Seg(i)[1] # 0 =>
              /\ \E t \in 0..7 : HasTrailingZeros(Seg(i)[1], t)
              /\ \A t \in 0..7 :
                    HasTrailingZeros(Seg(i)[1], t) => Len(Seg(i)) = t + 1
        /\ Seg(i)[1] = 0 <=> Len(Seg(i)) = 9
        /\ Len(Seg(i)) = 9 <=> AtLeastPow2(hist[i].arg, 56)

C4_Witness ==
    /\ Len(hist) = 1
    /\ hist[1].arg = NearOnes(56, 0)
    /\ sink[1] = 128
    /\ Len(sink) = 8

(***************************************************************************)
(* C5.  The sink is append-only: whatever it held before a call of         *)
(* write_u8, write_bytes, write_bool, write_u16, write_u32, write_u64 or   *)
(* write_usize is a prefix of what it holds after it, so no byte written   *)
(* earlier is changed or removed and the length never decreases.           *)
(***************************************************************************)
C5_AppendOnly == [][IsPrefix(sink, sink') /\ Len(sink') >= Len(sink)]_vars

C5_Witness ==
    /\ Len(hist) = 2
    /\ hist[1].start = 1
    /\ hist[1].op = "write_usize"
    /\ hist[2].op = "write_bytes"
    /\ Len(sink) > hist[2].start
    /\ sink[1] = 171

(***************************************************************************)
(* C6.  encoded_len agrees with the encoder: write_usize(v) makes the sink *)
(* grow by exactly encoded_len(v) bytes, below 9 bytes and at 9 bytes (the *)
(* lead byte and 8 value bytes).                                           *)
(***************************************************************************)
C6_GrowsByEncodedLen ==
    \A i \in Calls("write_usize") :
        Len(sink) - hist[i].start = encoded_len(hist[i].arg)

C6_Witness ==
    /\ Len(hist) = 1
    /\ hist[1].arg = NearPow(57, 1)
    /\ encoded_len(hist[1].arg) = 9
    /\ Len(sink) = 9

(***************************************************************************)
(* C7.  Escape form: for 2^56 <= v <= 2^64 - 1 write_usize(v) appends the  *)
(* byte 0 and then the 8 little-endian bytes of v, unshifted and without   *)
(* marker; 2^64 - 1 gives 00 FF FF FF FF FF FF FF FF; no v < 2^56 is       *)
(* written in this form.                                                   *)
(***************************************************************************)
C7_EscapeForm ==
    \A i \in Calls("write_usize") :
        /\ AtLeastPow2(hist[i].arg, 56) =>
              /\ Len(Seg(i)) = 9
              /\ Seg(i)[1] = 0
              /\ \A j \in 2..9 : IsByte(Seg(i)[j])
              /\ from_le_bytes(SubSeq(Seg(i), 2, 9)) = hist[i].arg
        /\ hist[i].arg = MaxUsize =>
              Seg(i) = <<0, 255, 255, 255, 255, 255, 255, 255, 255>>
        /\ ~AtLeastPow2(hist[i].arg, 56) => Seg(i)[1] # 0 /\ Len(Seg(i)) < 9

C7_Witness ==
    /\ Len(hist) = 1
    /\ hist[1].arg = NearAlt(60, 1)
    /\ Len(sink) = 9
    /\ sink[1] = 0
    /\ sink[9] = 13

(***************************************************************************)
(* C8.  write_u16, write_u32 and write_u64 append exactly 2, 4 and 8       *)
(* bytes, the least significant first: appended byte i holds bits 8i to    *)
(* 8i + 7 of the value, with no length prefix; write_u16(0x1234) appends   *)
(* 34 12.                                                                  *)
(***************************************************************************)
FixedWidthLE(i, n) ==
    /\ Len(Seg(i)) = n
    /\ \A j \in 1..n : IsByte(Seg(i)[j])
    /\ from_le_bytes(Seg(i)) = hist[i].arg

C8_FixedWidthLittleEndian ==
    /\ \A i \in Calls("write_u16") :
          /\ FixedWidthLE(i, 2)
          /\ hist[i].arg = BitsOfNat(4660, U16Bits) => Seg(i) = <<52, 18>>
    /\ \A i \in Calls("write_u32") : FixedWidthLE(i, 4)
    /\ \A i \in Calls("write_u64") : FixedWidthLE(i, 8)

C8_Witness ==
    /\ Len(hist) = 2
    /\ hist[1].op = "write_u16"
    /\ hist[1].arg = BitsOfNat(4660, U16Bits)
    /\ Seg(1) = <<52, 18>>
    /\ hist[2].op = "write_u64"
    /\ Seg(2) = <<239, 205, 171, 137, 103, 69, 35, 1>>

(***************************************************************************)
(* C9.  No value bit is lost below 9 bytes: for v < 2^56 and               *)
(* L = encoded_len(v), the quantity ((2v + 1) * 2^(L-1)) computed without  *)
(* wrapping is below 2^(8L), so the 64-bit shifts of write_usize do not    *)
(* wrap and the bytes of the 8-byte representation beyond the first L,     *)
(* which are not written, are zero.                                        *)
(***************************************************************************)
WideBits == UsizeBits + 16

\* ((2v + 1) * 2^(L-1)) in WideBits bits, where nothing is shifted out
Unwrapped(v, L) ==
    shl(bitor(shl(Resize(v, WideBits), 1), One(WideBits)), L - 1)

\* the same quantity as write_usize computes it, in 64 bits
Shifted(v, L) == shl(bitor(shl(v, 1), One(UsizeBits)), L - 1)

C9_NoBitLost ==
    \A i \in Calls("write_usize") :
        LET v == hist[i].arg
            L == encoded_len(v)
        IN  ~AtLeastPow2(v, 56) =>
                /\ ~AtLeastPow2(Unwrapped(v, L), 8 * L)
                /\ Resize(Shifted(v, L), WideBits) = Unwrapped(v, L)
                /\ \A j \in (L + 1)..8 : to_le_bytes(Shifted(v, L))[j] = 0
                /\ Resize(from_le_bytes(Seg(i)), WideBits) = Unwrapped(v, L)

C9_Witness ==
    /\ Len(hist) = 1
    /\ hist[1].arg = NearOnes(56, 0)
    /\ encoded_len(hist[1].arg) = 8
    /\ sink = <<128, 255, 255, 255, 255, 255, 255, 255>>

(***************************************************************************)
(* C10.  The format is uniquely decodable in a stream: after consecutive   *)
(* write_usize calls of v1..vn on an empty sink, decoding from the start   *)
(* of the sink, each time consuming the bytes the lead byte announces,     *)
(* gives back v1..vn in order and consumes the sink exactly; and no        *)
(* value's bytes are a proper prefix of another value's bytes.             *)
(***************************************************************************)
C10_StreamDecodable ==
    /\ DecodeAll(sink, 1) =
          [ok |-> TRUE, values |-> [i \in 1..Len(hist) |-> hist[i].arg]]
    /\ \A i, j \in Calls("write_usize") :
          IsPrefix(Seg(i), Seg(j)) => Seg(i) = Seg(j)

C10_Witness ==
    /\ Len(hist) = 3
    /\ hist[1].arg = MaxUsize
    /\ hist[2].arg = Zero(UsizeBits)
    /\ hist[3].arg = NearPow(8, 0)
    /\ sink = <<0, 255, 255, 255, 255, 255, 255, 255, 255, 1, 2, 2>>
    /\ DecodeAll(sink, 1).values = <<MaxUsize, Zero(UsizeBits), NearPow(8, 0)>>

=============================================================================
